---- MODULE Spec2Model ----
(***************************************************************************)
(* Model of the ALD/CVD recipe runner: ressources/setup.py (Recipe,        *)
(* initialize, update_cycle, the log helpers, end_recipe) and ALDmof.py    *)
(* (the GO and STOP buttons, the recipe import).                           *)
(*                                                                         *)
(* One session presses GO once; the script then runs Recipe, which Streamlit*)
(* can interrupt at its st.* calls when STOP is pressed.  Step indices are *)
(* 0-based as in the source; sequences are 1-based, hence the "+ 1".       *)
(***************************************************************************)
EXTENDS Integers, Sequences, FiniteSets, TLC

\* Bounds of the model: the largest cycle count and step count of a recipe.
MaxN == 2
MaxSteps == 2

VARIABLES
    pc,          \* position of the script: idle, init_wait, step_on, countdown,
                 \* step_off, finalize, final_wait, ending, done, crashed, aborted
    rec,         \* the arguments Recipe was called with
    i,           \* cycles completed so far (the loop variable i of the running cycle)
    step,        \* loop variable step
    cmds,        \* every usbrelay command issued, in order
    open,        \* relay numbers currently switched to 1
    log,         \* lines of the file st.session_state['logname'] (<<>>: no file)
    logname,     \* st.session_state['logname'] (<<>> for '')
    start_time,  \* st.session_state['start_time'] ("" for '')
    countdowns,  \* every countdown(t, tot) call, with the number of commands before it
    error,       \* the exception that ended the script, "" if none
    stopped,     \* where STOP was pressed: [at |-> Len(cmds) then, from |-> pc then]
    default,     \* st.session_state['default']
    imported,    \* whether a log has been picked in "Import recipe"
    cd,          \* one call of countdown(t, tot), times in milliseconds
    peer,        \* the script of a second browser session on the same board
    repl         \* one call of replacement(filepath, pattern, replacement)

\* What the actions of this session's script leave alone
aux == <<cd, peer, repl>>

vars == <<pc, rec, i, step, cmds, open, log, logname, start_time, countdowns,
          error, stopped, default, imported, cd, peer, repl>>

Range(s) == {s[k] : k \in 1..Len(s)}

\* ------------------------------------------------------------------ relays

relays ==
    ("V1" :> 1) @@ ("V2" :> 2) @@ ("V3" :> 3) @@ ("Ar reactor" :> 4)
    @@ ("Turn OFF Ar bypass" :> 5)

\* sorted(relays.keys())
SortedKeys == <<"Ar reactor", "Turn OFF Ar bypass", "V1", "V2", "V3">>

\* The relay number end_recipe switches
EndRelay == 9

\* A call turn_ON(gas) / turn_OFF(gas) still to be made
ON(gas) == [gas |-> gas, val |-> 1]
OFF(gas) == [gas |-> gas, val |-> 0]

\* usbrelay RELAY_{relnum}={val}
Cmd(relnum, val) == [rel |-> relnum, val |-> val]

turn_ON(gas) == Cmd(relays[gas], 1)
turn_OFF(gas) == Cmd(relays[gas], 0)

\* The calls of a loop made in order: relays[gas] raises KeyError at the first gas
\* that is no key of relays, and the calls after it are never made.
RECURSIVE Issue(_)
Issue(calls) ==
    IF calls = <<>> THEN [cmds |-> <<>>, ok |-> TRUE]
    ELSE IF Head(calls).gas \notin DOMAIN relays THEN [cmds |-> <<>>, ok |-> FALSE]
    ELSE LET rest == Issue(Tail(calls))
             c == IF Head(calls).val = 1 THEN turn_ON(Head(calls).gas)
                  ELSE turn_OFF(Head(calls).gas)
         IN [cmds |-> <<c>> \o rest.cmds, ok |-> rest.ok]

\* The relay board after commands cs: a command switches the relay it names
RECURSIVE Switch(_, _)
Switch(o, cs) ==
    IF cs = <<>> THEN o
    ELSE Switch(IF Head(cs).val = 1 THEN o \cup {Head(cs).rel}
                ELSE o \ {Head(cs).rel}, Tail(cs))

\* ------------------------------------------------------------- text helpers
\* A text is a sequence of tokens: a valve or recipe name is one token, every
\* other character (a digit, a separator) is a token of its own.

Digit == <<"0", "1", "2", "3", "4", "5", "6", "7", "8", "9">>

\* str(n) of a non-negative int
RECURSIVE str(_)
str(n) == IF n < 10 THEN <<Digit[n + 1]>> ELSE str(n \div 10) \o <<Digit[(n % 10) + 1]>>

\* str(t) of a float holding a whole number of seconds: "5.0"
strfloat(t) == str(t) \o <<".", "0">>

\* sep.join(parts)
RECURSIVE join(_, _)
join(sep, parts) ==
    IF parts = <<>> THEN <<>>
    ELSE IF Len(parts) = 1 THEN parts[1]
    ELSE parts[1] \o <<sep>> \o join(sep, Tail(parts))

\* text.split(sep): always at least one piece, "" gives [""]
RECURSIVE split(_, _)
split(text, sep) ==
    IF text = <<>> THEN << <<>> >>
    ELSE IF Head(text) = sep THEN << <<>> >> \o split(Tail(text), sep)
    ELSE LET rest == split(Tail(text), sep)
         IN << <<Head(text)>> \o Head(rest) >> \o Tail(rest)

\* int(text) of a text of digits
RECURSIVE int(_)
int(text) ==
    IF text = <<>> THEN 0
    ELSE 10 * int(SubSeq(text, 1, Len(text) - 1))
         + (CHOOSE d \in 0..9 : Digit[d + 1] = text[Len(text)])

\* float(text) of "<digits>.0"
float(text) == int(split(text, ".")[1])

\* The Python string a piece of one name (or of nothing) stands for
Text(piece) == IF piece = <<>> THEN "" ELSE piece[1]

Names(gases) == [k \in 1..Len(gases) |-> <<gases[k]>>]

\* ---------------------------------------------------------------- log file

Line(key, val) == [key |-> key, val |-> val]

\* append_to_file(logfile, text): the lines of text go to the end of the file
append_to_file(file, lines) == file \o lines

\* write_to_log(logname, **kwargs): one '{:15}  {}' line per keyword
write_to_log(file, lines) == append_to_file(file, lines)

\* The data line of csv: the recipe's fields joined by "|"
CsvRow(r) ==
    join("|", << <<r.recipe>>,
                 join(",", Names(r.initgas)),
                 str(r.wait),
                 join(",", Names(r.fingas)),
                 str(r.waitf),
                 str(r.N),
                 str(Len(r.times)),
                 join(",", [k \in 1..Len(r.valves) |-> join(";", Names(r.valves[k]))]),
                 join(",", [k \in 1..Len(r.times) |-> strfloat(r.times[k])]) >>)

CsvHeader ==
    join("|", << <<"recipe">>, <<"initgas">>, <<"wait">>, <<"fingas">>, <<"waitf">>,
                 <<"N">>, <<"Nsteps">>, <<"valves">>, <<"times">> >>)

\* write_recipe_to_log(logname, csv): 'Recipe----\n\n{csv}' with csv the header
\* line, the data line, an empty line and 'Log----\n'
write_recipe_to_log(file, r) ==
    append_to_file(file, << Line("Recipe-----------------------", <<>>),
                            Line("", <<>>),
                            Line("csv_header", CsvHeader),
                            Line("csv_row", CsvRow(r)),
                            Line("", <<>>),
                            Line("Log--------------------------", <<>>),
                            Line("", <<>>) >>)

\* replacement(filepath, pattern, replacement): every line holding the pattern is
\* rewritten.  The pattern "cycles_done      i/N" is a whole cycles_done line.
replacement(file, pattern, new) ==
    [k \in 1..Len(file) |->
        IF file[k].key = pattern.key /\ file[k].val = pattern.val THEN new ELSE file[k]]

\* As update_cycle with the first cycle's branch taken every time
update_cycle_append(file, ci, N) ==
    write_to_log(file, << Line("cycles_done", <<ci + 1, N>>) >>)

\* update_cycle(logname, i, N)
update_cycle(file, ci, N) ==
    IF ci = 0 THEN write_to_log(file, << Line("cycles_done", <<ci + 1, N>>) >>)
    ELSE replacement(file, Line("cycles_done", <<ci, N>>), Line("cycles_done", <<ci + 1, N>>))

\* ------------------------------------------------------------------ recipes

recALD ==
    [recipe |-> "ALD", initgas |-> <<>>, wait |-> 10, fingas |-> <<>>, waitf |-> 10,
     N |-> 100, Nsteps |-> 4,
     valves |-> << <<"Turn OFF Ar bypass", "V1", "Ar reactor">>, <<>>,
                   <<"Turn OFF Ar bypass", "V2", "Ar reactor">>, <<>> >>,
     times |-> <<5, 10, 5, 10>>]

\* What the form can hold when GO is pressed.  'V4' is offered by the
\* multiselects and is no key of relays.
InitChoices ==
    {[gas |-> <<>>, wait |-> 0], [gas |-> <<>>, wait |-> 10],
     [gas |-> <<"V1">>, wait |-> 10], [gas |-> <<"V2", "V4">>, wait |-> 0]}

FinChoices ==
    {[gas |-> <<>>, wait |-> 0], [gas |-> <<"V1">>, wait |-> 10],
     [gas |-> <<"V2">>, wait |-> 0], [gas |-> <<"V4">>, wait |-> 10]}

StepChoices == {<<>>, <<"V1">>, <<"V2">>, <<"V1", "V2">>, <<"V4">>}

TimesChoices(L) == {[j \in 1..L |-> 5], [j \in 1..L |-> 5 * j]}

Recipes ==
    UNION {
        {[recipe |-> "ALD", initgas |-> ic.gas, wait |-> ic.wait,
          fingas |-> fc.gas, waitf |-> fc.wait, N |-> n, Nsteps |-> L,
          valves |-> vs, times |-> ts] :
            ic \in InitChoices, fc \in FinChoices, n \in 0..MaxN,
            vs \in [1..L -> StepChoices], ts \in TimesChoices(L)} :
        L \in 1..MaxSteps}

\* datetime.now().strftime("%Y-%m-%d-%H:%M:%S") when GO is pressed
Now == "2022-12-14-10:00:00"

RECURSIVE sum(_)
sum(s) == IF s = <<>> THEN 0 ELSE Head(s) + sum(Tail(s))

\* ------------------------------------------------------------ Recipe's parts

\* initialize: the turn_ON / turn_OFF calls on sorted(relays.keys())
initialize_delta(initgas) == [k \in 1..Len(initgas) |-> ON(initgas[k])]

initialize(initgas) ==
    IF Len(initgas) = 0 THEN [k \in 1..Len(SortedKeys) |-> OFF(SortedKeys[k])]
    ELSE [k \in 1..Len(SortedKeys) |->
            IF SortedKeys[k] \notin Range(initgas) THEN OFF(SortedKeys[k])
            ELSE ON(SortedKeys[k])]

\* As StepOnCalls, followed by a turn_OFF of every other valve of relays
StepOnCalls_then_off(r, st) ==
    LET other(g) == g \notin Range(r.valves[st + 1])
        rest == SelectSeq(SortedKeys, other)
    IN [k \in 1..Len(r.valves[st + 1]) |-> ON(r.valves[st + 1][k])]
       \o [k \in 1..Len(rest) |-> OFF(rest[k])]

\* for v in valves[step]: turn_ON(v)
StepOnCalls(r, st) == [k \in 1..Len(r.valves[st + 1]) |-> ON(r.valves[st + 1][k])]

\* The condition of line 338 for valve v after step st of cycle ci
MustTurnOff(r, ci, st, v) ==
    \/ ci < r.N - 1 /\ v \notin Range(r.valves[((st + 1) % Len(r.times)) + 1])
    \/ ci = r.N - 1 /\ v \notin Range(r.fingas)

\* for v in valves[step]: if ...: turn_OFF(v)
StepOffCalls(r, ci, st) ==
    LET needed(v) == MustTurnOff(r, ci, st, v)
        vs == SelectSeq(r.valves[st + 1], needed)
    IN [k \in 1..Len(vs) |-> OFF(vs[k])]

\* for v in fingas: turn_ON(v)
FinalCalls(r) == [k \in 1..Len(r.fingas) |-> ON(r.fingas[k])]

\* for step in range(len(times)): whether step st ends the inner loop
LastStep_early(r, st) == st >= Len(r.times) - 2

LastStep(r, st) == st = Len(r.times) - 1

\* A countdown(t, tot) call
Countdown(kind, ci, st, t) ==
    [kind |-> kind, i |-> ci, step |-> st, t |-> t, at |-> Len(cmds)]

NoStop == [at |-> -1, from |-> ""]

\* No countdown, no second session and no replacement under way
NoCountdown == [pc |-> "idle", t |-> 0, tot |-> 0, t0 |-> 0, tot0 |-> 0,
                ticks |-> 0, rests |-> 0, slept |-> 0]
NoPeer == [pc |-> "idle", rec |-> recALD, i |-> 0, step |-> 0, log |-> <<>>,
           during |-> "", mine |-> {}]
NoRepl == [pc |-> "idle", tmp |-> <<>>, old |-> <<>>, new |-> <<>>, exists |-> TRUE]
InitAux == cd = NoCountdown /\ peer = NoPeer /\ repl = NoRepl

\* This session before GO is pressed
InitSession ==
    /\ pc = "idle"
    /\ rec = recALD
    /\ i = 0
    /\ step = 0
    /\ cmds = <<>>
    /\ open = {}
    /\ log = <<>>
    /\ logname = <<>>
    /\ start_time = ""
    /\ countdowns = <<>>
    /\ error = ""
    /\ stopped = NoStop
    /\ default = recALD
    /\ imported = FALSE

Init == InitAux /\ InitSession

\* GO pressed: Recipe(...) up to the end of initialize's valve loop.  Line 305
\* divides by N before anything is written.
GO(r) ==
    /\ pc = "idle"
    /\ rec' = r
    /\ start_time' = Now
    /\ logname' = <<"Logs", Now, r.recipe>>
    /\ i' = 0
    /\ step' = 0
    /\ IF r.N = 0
       THEN /\ pc' = "crashed"
            /\ error' = "ZeroDivisionError"
            /\ UNCHANGED <<log, cmds, open>>
       ELSE LET tot == sum(r.times) * r.N + r.wait + r.waitf
                cycle_time == (tot - r.waitf - r.wait) \div r.N
                calls == Issue(initialize(r.initgas))
            IN /\ log' = write_to_log(write_recipe_to_log(log, r),
                            << Line("recipe", <<r.recipe>>),
                               Line("start", <<Now>>),
                               Line("steps", <<r.initgas, r.valves, r.times, r.fingas>>),
                               Line("N", <<r.N>>),
                               Line("time_per_cycle", <<cycle_time>>) >>)
               /\ cmds' = cmds \o calls.cmds
               /\ open' = Switch(open, calls.cmds)
               /\ pc' = IF r.wait > 0 THEN "init_wait"
                        ELSE IF r.N > 0 THEN "step_on" ELSE "finalize"
               /\ error' = ""
    /\ UNCHANGED aux
    /\ UNCHANGED <<countdowns, stopped, default, imported>>

\* The GO button with the form's values (ALDmof.py lines 92-95)
GObutton ==
    /\ pc = "idle"
    /\ \E r \in Recipes : GO(r)

\* initialize, wait > 0: countdown(wait, tot)
InitWait ==
    /\ pc = "init_wait"
    /\ countdowns' = Append(countdowns, Countdown("init", 0, 0, rec.wait))
    /\ pc' = IF rec.N > 0 THEN "step_on" ELSE "finalize"
    /\ UNCHANGED aux
    /\ UNCHANGED <<rec, i, step, cmds, open, log, logname, start_time, error,
                   stopped, default, imported>>

\* The start of a step: its valves are turned on (lines 326-334)
StepOn ==
    /\ pc = "step_on"
    /\ LET calls == Issue(StepOnCalls(rec, step))
       IN /\ cmds' = cmds \o calls.cmds
          /\ open' = Switch(open, calls.cmds)
          /\ pc' = IF calls.ok THEN "countdown" ELSE "crashed"
          /\ error' = IF calls.ok THEN error ELSE "KeyError"
    /\ UNCHANGED aux
    /\ UNCHANGED <<rec, i, step, log, logname, start_time, countdowns, stopped,
                   default, imported>>

\* countdown(times[step], tot)
StepCountdown ==
    /\ pc = "countdown"
    /\ countdowns' = Append(countdowns, Countdown("step", i, step, rec.times[step + 1]))
    /\ pc' = "step_off"
    /\ UNCHANGED aux
    /\ UNCHANGED <<rec, i, step, cmds, open, log, logname, start_time, error,
                   stopped, default, imported>>

\* The end of a step: the valves not needed next are turned off, and after the
\* last step of a cycle update_cycle runs (lines 337-340)
StepOff ==
    /\ pc = "step_off"
    /\ LET calls == Issue(StepOffCalls(rec, i, step))
       IN /\ cmds' = cmds \o calls.cmds
          /\ open' = Switch(open, calls.cmds)
          /\ IF ~calls.ok
             THEN /\ pc' = "crashed"
                  /\ error' = "KeyError"
                  /\ UNCHANGED <<i, step, log>>
             ELSE IF ~LastStep(rec, step)
             THEN /\ step' = step + 1
                  /\ pc' = "step_on"
                  /\ UNCHANGED <<i, log, error>>
             ELSE /\ log' = update_cycle(log, i, rec.N)
                  /\ i' = i + 1
                  /\ step' = 0
                  /\ pc' = IF i + 1 < rec.N THEN "step_on" ELSE "finalize"
                  /\ UNCHANGED error
    /\ UNCHANGED aux
    /\ UNCHANGED <<rec, logname, start_time, countdowns, stopped, default, imported>>

\* After the loop: the final valves are turned on (lines 341-345)
Finalize ==
    /\ pc = "finalize"
    /\ LET calls == Issue(FinalCalls(rec))
       IN /\ cmds' = cmds \o calls.cmds
          /\ open' = Switch(open, calls.cmds)
          /\ pc' = IF calls.ok THEN "final_wait" ELSE "crashed"
          /\ error' = IF calls.ok THEN error ELSE "KeyError"
    /\ UNCHANGED aux
    /\ UNCHANGED <<rec, i, step, log, logname, start_time, countdowns, stopped,
                   default, imported>>

\* countdown(waitf, tot)
FinalWait ==
    /\ pc = "final_wait"
    /\ countdowns' = Append(countdowns, Countdown("final", 0, 0, rec.waitf))
    /\ pc' = "ending"
    /\ UNCHANGED aux
    /\ UNCHANGED <<rec, i, step, cmds, open, log, logname, start_time, error,
                   stopped, default, imported>>

\* end_recipe(): usbrelay RELAY_9=0, then the script is rerun
end_recipe == << Cmd(EndRelay, 0) >>

\* The terminal record and end_recipe (lines 347-353)
Ending ==
    /\ pc = "ending"
    /\ log' = write_to_log(log, << Line("end", <<Now>>), Line("duration", <<>>),
                                   Line("ending", <<"normal">>) >>)
    /\ cmds' = cmds \o end_recipe
    /\ open' = Switch(open, end_recipe)
    /\ pc' = "done"
    /\ UNCHANGED aux
    /\ UNCHANGED <<rec, i, step, logname, start_time, countdowns, error, stopped,
                   default, imported>>

\* STOP PROCESS pressed: Streamlit ends the running script at its next st.* call
\* and reruns it with STOP true (ALDmof.py lines 79-87)
STOP ==
    /\ pc \in {"idle", "init_wait", "step_on", "countdown", "step_off", "finalize",
               "final_wait", "ending", "done", "crashed"}
    /\ stopped' = [at |-> Len(cmds), from |-> pc]
    /\ log' = IF Len(logname) > 0
              THEN write_to_log(log, << Line("end", <<Now>>), Line("duration", <<>>),
                                        Line("ending", <<"forced">>) >>)
              ELSE log
    /\ cmds' = cmds \o end_recipe
    /\ open' = Switch(open, end_recipe)
    /\ pc' = "aborted"
    /\ UNCHANGED aux
    /\ UNCHANGED <<rec, i, step, logname, start_time, countdowns, error, default,
                   imported>>

\* pd.read_csv(file, sep="|", nrows=2, skiprows=2) and the dict built from it.
\* The rows read are the data line and the 'Log----' line, which has no value
\* in any column but the first: a column whose data value is a number is a
\* float column, and a float has no split.
ReadRecipe(file) ==
    LET columns == split(file[3].val, "|")
        row == split(file[4].val, "|")
        col(name) == row[CHOOSE k \in 1..Len(columns) : columns[k] = <<name>>]
        gases(text) == IF Len(text) > 0
                       THEN LET gs == split(text, ",")
                            IN [k \in 1..Len(gs) |-> Text(gs[k])]
                       ELSE <<>>
        steps == split(col("valves"), ",")
        ts == split(col("times"), ",")
    IN IF "," \notin Range(col("times"))
       THEN [ok |-> FALSE, recipe |-> recALD]
       ELSE [ok |-> TRUE,
             recipe |->
                [recipe |-> Text(col("recipe")),
                 initgas |-> gases(col("initgas")),
                 wait |-> int(col("wait")),
                 fingas |-> gases(col("fingas")),
                 waitf |-> int(col("waitf")),
                 N |-> int(col("N")),
                 Nsteps |-> int(col("Nsteps")),
                 valves |-> [k \in 1..Len(steps) |->
                                LET vs == split(steps[k], ";")
                                IN [m \in 1..Len(vs) |-> Text(vs[m])]],
                 times |-> [k \in 1..Len(ts) |-> float(ts[k])]]]

\* A log is picked in "Import recipe" (ALDmof.py lines 25-38)
Import ==
    /\ ~imported
    /\ log # <<>>
    /\ imported' = TRUE
    /\ LET read == ReadRecipe(log)
       IN IF read.ok
          THEN /\ default' = read.recipe
               /\ UNCHANGED error
          ELSE /\ error' = "AttributeError"
               /\ UNCHANGED default
    /\ UNCHANGED aux
    /\ UNCHANGED <<pc, rec, i, step, cmds, open, log, logname, start_time,
                   countdowns, stopped>>

NextImport ==
    \/ GObutton
    \/ Import

\* The runs of Recipe followed by an import of the log just written
SpecImport == Init /\ [][NextImport]_vars

\* The relay board as a previous run, an abort or a crash can have left it
InitBoard ==
    /\ InitAux
    /\ pc = "idle"
    /\ rec = recALD
    /\ i = 0
    /\ step = 0
    /\ cmds = <<>>
    /\ open \in SUBSET {relays[g] : g \in DOMAIN relays}
    /\ log = <<>>
    /\ logname = <<>>
    /\ start_time = ""
    /\ countdowns = <<>>
    /\ error = ""
    /\ stopped = NoStop
    /\ default = recALD
    /\ imported = FALSE

NextBoard ==
    \/ GObutton
    \/ InitWait

\* The start of a run, up to the end of initialize, on any board
SpecBoard == InitBoard /\ [][NextBoard]_vars

\* ---------------------------------------------------------------------
\* countdown(t, tot) on its own, setup.py 201-227.  Times are integers in
\* milliseconds: time.sleep(1) sleeps Second, t -= 1 takes Second off t.
\* tot counts whole seconds (tot = int(tot)).
MaxMillis == 2500
Second == 1000

\* The total handed in: the step alone, or the step and what follows it
TotChoices(t) == {t \div Second, t \div Second + 3}

\* As CountdownRest with the else branch lacking its t -= 1
CountdownRest_no_decrement(c) ==
    [c EXCEPT !.slept = @ + c.t, !.rests = @ + 1]

\* if t >= 1: ... time.sleep(1); t -= 1; tot -= 1
CountdownTickStep(c) ==
    [c EXCEPT !.slept = @ + Second, !.t = @ - Second, !.tot = @ - 1,
              !.ticks = @ + 1]

\* else: time.sleep(t); t -= 1
CountdownRest(c) ==
    [c EXCEPT !.slept = @ + c.t, !.t = @ - Second, !.rests = @ + 1]

InitCountdown ==
    /\ InitSession
    /\ peer = NoPeer /\ repl = NoRepl
    /\ \E t \in 0..MaxMillis : \E tot \in TotChoices(t) :
          cd = [pc |-> "loop", t |-> t, tot |-> tot, t0 |-> t, tot0 |-> tot,
                ticks |-> 0, rests |-> 0, slept |-> 0]

CountdownTick ==
    /\ cd.pc = "loop" /\ cd.t > 0 /\ cd.t >= Second
    /\ cd' = CountdownTickStep(cd)
    /\ UNCHANGED <<pc, rec, i, step, cmds, open, log, logname, start_time,
                   countdowns, error, stopped, default, imported, peer, repl>>

CountdownLast ==
    /\ cd.pc = "loop" /\ cd.t > 0 /\ ~(cd.t >= Second)
    /\ cd' = CountdownRest(cd)
    /\ UNCHANGED <<pc, rec, i, step, cmds, open, log, logname, start_time,
                   countdowns, error, stopped, default, imported, peer, repl>>

CountdownReturn ==
    /\ cd.pc = "loop" /\ ~(cd.t > 0)
    /\ cd' = [cd EXCEPT !.pc = "done"]
    /\ UNCHANGED <<pc, rec, i, step, cmds, open, log, logname, start_time,
                   countdowns, error, stopped, default, imported, peer, repl>>

NextCountdown == CountdownTick \/ CountdownLast \/ CountdownReturn

SpecCountdown == InitCountdown /\ [][NextCountdown]_vars

Next ==
    \/ GObutton
    \/ InitWait
    \/ StepOn
    \/ StepCountdown
    \/ StepOff
    \/ Finalize
    \/ FinalWait
    \/ Ending
    \/ STOP

Spec == Init /\ [][Next]_vars

\* ---------------------------------------------------------------------
\* The run when a write to the log raises.  Nothing in Recipe, update_cycle,
\* write_to_log or append_to_file catches an exception (setup.py 104-154,
\* 296-353): it ends the script where it is raised.

\* As StartCalls with initialize placed before the two writes
StartCalls_before_log(r, logged) == initialize(r.initgas)

\* What Recipe asks of the board at its start, by whether
\* write_recipe_to_log and write_to_log (lines 318-320) have returned
StartCalls(r, logged) == IF logged THEN initialize(r.initgas) ELSE <<>>

\* GO pressed and the log cannot be written: write_recipe_to_log raises
\* (header = FALSE) or it returns and write_to_log raises (header = TRUE)
GOLogFails(r, header) ==
    /\ pc = "idle"
    /\ r.N > 0
    /\ rec' = r
    /\ start_time' = Now
    /\ logname' = <<"Logs", Now, r.recipe>>
    /\ i' = 0
    /\ step' = 0
    /\ log' = IF header THEN write_recipe_to_log(log, r) ELSE log
    /\ LET calls == Issue(StartCalls(r, FALSE))
       IN /\ cmds' = cmds \o calls.cmds
          /\ open' = Switch(open, calls.cmds)
    /\ pc' = "crashed"
    /\ error' = "OSError"
    /\ UNCHANGED aux
    /\ UNCHANGED <<countdowns, stopped, default, imported>>

GObuttonLogFails ==
    /\ pc = "idle"
    /\ \E r \in Recipes : \E header \in BOOLEAN : GOLogFails(r, header)

\* The end of a cycle when update_cycle raises (line 339)
StepOffLogFails ==
    /\ pc = "step_off"
    /\ LastStep(rec, step)
    /\ LET calls == Issue(StepOffCalls(rec, i, step))
       IN /\ calls.ok
          /\ cmds' = cmds \o calls.cmds
          /\ open' = Switch(open, calls.cmds)
    /\ pc' = "crashed"
    /\ error' = "OSError"
    /\ UNCHANGED aux
    /\ UNCHANGED <<rec, i, step, log, logname, start_time, countdowns, stopped,
                   default, imported>>

\* The terminal record when write_to_log raises (lines 350-352): end_recipe
\* on line 353 is not reached
EndingLogFails ==
    /\ pc = "ending"
    /\ pc' = "crashed"
    /\ error' = "OSError"
    /\ UNCHANGED aux
    /\ UNCHANGED <<rec, i, step, cmds, open, log, logname, start_time, countdowns,
                   stopped, default, imported>>

NextIO ==
    \/ Next
    \/ GObuttonLogFails
    \/ StepOffLogFails
    \/ EndingLogFails

SpecIO == Init /\ [][NextIO]_vars

\* ---------------------------------------------------------------------
\* The run with replacement (setup.py 112-124) taken one file operation at
\* a time.  log is what is at the log path, repl.exists whether there is a
\* file at that path, repl.tmp the file made by mkstemp; repl.old and
\* repl.new keep the content before the call and the content asked for.

\* A step other than the end of a cycle after the first
StepOffPlain ==
    /\ ~(LastStep(rec, step) /\ i > 0)
    /\ StepOff

\* The end of a cycle after the first: update_cycle calls replacement, which
\* makes the temporary file (mkstemp, line 117)
StepOffPatch ==
    /\ pc = "step_off"
    /\ LastStep(rec, step) /\ i > 0
    /\ LET calls == Issue(StepOffCalls(rec, i, step))
       IN /\ calls.ok
          /\ cmds' = cmds \o calls.cmds
          /\ open' = Switch(open, calls.cmds)
    /\ pc' = "update_cycle"
    /\ repl' = [pc |-> "write", tmp |-> <<>>, old |-> log,
                new |-> update_cycle(log, i, rec.N), exists |-> TRUE]
    /\ UNCHANGED <<rec, i, step, log, logname, start_time, countdowns, error,
                   stopped, default, imported, cd, peer>>

\* for line in file0: file1.write(line.replace(pattern, replacement))
ReplWrite ==
    /\ repl.pc = "write"
    /\ Len(repl.tmp) < Len(log)
    /\ LET line == << log[Len(repl.tmp) + 1] >>
       IN repl' = [repl EXCEPT !.tmp = @ \o
                      replacement(line, Line("cycles_done", <<i, rec.N>>),
                                  Line("cycles_done", <<i + 1, rec.N>>))]
    /\ UNCHANGED <<pc, rec, i, step, cmds, open, log, logname, start_time,
                   countdowns, error, stopped, default, imported, cd, peer>>

\* Both files closed; copymode(filepath, abspath)
ReplCopymode ==
    /\ repl.pc = "write"
    /\ Len(repl.tmp) = Len(log)
    /\ repl' = [repl EXCEPT !.pc = "remove"]
    /\ UNCHANGED <<pc, rec, i, step, cmds, open, log, logname, start_time,
                   countdowns, error, stopped, default, imported, cd, peer>>

\* os.remove(filepath)
ReplRemove ==
    /\ repl.pc = "remove"
    /\ repl' = [repl EXCEPT !.pc = "move", !.exists = FALSE]
    /\ log' = <<>>
    /\ UNCHANGED <<pc, rec, i, step, cmds, open, logname, start_time,
                   countdowns, error, stopped, default, imported, cd, peer>>

\* move(abspath, filepath) when os.rename succeeds
ReplMoveRename ==
    /\ repl.pc = "move"
    /\ repl' = [repl EXCEPT !.pc = "return", !.exists = TRUE]
    /\ log' = repl.tmp
    /\ UNCHANGED <<pc, rec, i, step, cmds, open, logname, start_time,
                   countdowns, error, stopped, default, imported, cd, peer>>

\* move(abspath, filepath) when the temporary directory is on another
\* filesystem: shutil.move copies the file, the destination is created empty
ReplMoveCopy ==
    /\ repl.pc = "move"
    /\ repl' = [repl EXCEPT !.pc = "copy", !.exists = TRUE]
    /\ log' = <<>>
    /\ UNCHANGED <<pc, rec, i, step, cmds, open, logname, start_time,
                   countdowns, error, stopped, default, imported, cd, peer>>

\* The copy, a line at a time
ReplCopyLine ==
    /\ repl.pc = "copy"
    /\ Len(log) < Len(repl.tmp)
    /\ log' = Append(log, repl.tmp[Len(log) + 1])
    /\ UNCHANGED <<pc, rec, i, step, cmds, open, logname, start_time, countdowns,
                   error, stopped, default, imported, cd, peer, repl>>

\* The copy is complete and the temporary file is unlinked
ReplCopyDone ==
    /\ repl.pc = "copy"
    /\ Len(log) = Len(repl.tmp)
    /\ repl' = [repl EXCEPT !.pc = "return"]
    /\ UNCHANGED <<pc, rec, i, step, cmds, open, log, logname, start_time,
                   countdowns, error, stopped, default, imported, cd, peer>>

\* replacement and update_cycle return; the loop goes to the next cycle
ReplReturn ==
    /\ repl.pc = "return"
    /\ repl' = [repl EXCEPT !.pc = "idle"]
    /\ i' = i + 1
    /\ step' = 0
    /\ pc' = IF i + 1 < rec.N THEN "step_on" ELSE "finalize"
    /\ UNCHANGED <<rec, cmds, open, log, logname, start_time, countdowns, error,
                   stopped, default, imported, cd, peer>>

\* The process is killed, or the machine loses power, inside replacement
ReplCrash ==
    /\ repl.pc \in {"write", "remove", "move", "copy", "return"}
    /\ repl' = [repl EXCEPT !.pc = "crashed"]
    /\ pc' = "crashed"
    /\ error' = "killed"
    /\ UNCHANGED <<rec, i, step, cmds, open, log, logname, start_time, countdowns,
                   stopped, default, imported, cd, peer>>

NextReplacement ==
    \/ GObutton
    \/ InitWait
    \/ StepOn
    \/ StepCountdown
    \/ StepOffPlain
    \/ StepOffPatch
    \/ ReplWrite
    \/ ReplCopymode
    \/ ReplRemove
    \/ ReplMoveRename
    \/ ReplMoveCopy
    \/ ReplCopyLine
    \/ ReplCopyDone
    \/ ReplReturn
    \/ ReplCrash
    \/ Finalize
    \/ FinalWait
    \/ Ending

SpecReplacement == Init /\ [][NextReplacement]_vars

\* ---------------------------------------------------------------------
\* Two browser sessions on the same server and the same relay board.  Each
\* session runs the script in a thread of its own; Recipe takes no lock and
\* looks at no state shared between sessions (ALDmof.py 92-95, setup.py
\* 296-353), and both issue usbrelay commands to the one board.  peer is
\* the second session's script: peer.during is where this session was when
\* the peer's GO was pressed, peer.mine the places in cmds of the commands
\* the peer has issued.

\* One cycle of one step, without waits
PairRecipes ==
    {r \in Recipes : /\ r.N = 1 /\ Len(r.times) = 1
                     /\ r.wait = 0 /\ r.waitf = 0 /\ r.initgas = <<>>}

GObuttonPair ==
    /\ pc = "idle"
    /\ \E r \in PairRecipes : GO(r)

\* What Recipe has written to its log when initialize is called
StartLog(r) ==
    write_to_log(write_recipe_to_log(<<>>, r),
        << Line("recipe", <<r.recipe>>),
           Line("start", <<Now>>),
           Line("steps", <<r.initgas, r.valves, r.times, r.fingas>>),
           Line("N", <<r.N>>),
           Line("time_per_cycle", <<(sum(r.times) * r.N) \div r.N>>) >>)

\* The places in cmds taken by n more commands
NewPlaces(n) == (Len(cmds) + 1)..(Len(cmds) + n)

\* GO pressed in the second session: Recipe up to the end of initialize
PeerGO(r) ==
    /\ peer.pc = "idle"
    /\ r.N > 0
    /\ LET calls == Issue(initialize(r.initgas))
       IN /\ cmds' = cmds \o calls.cmds
          /\ open' = Switch(open, calls.cmds)
          /\ peer' = [pc |-> "step_on", rec |-> r, i |-> 0, step |-> 0,
                      log |-> StartLog(r), during |-> pc,
                      mine |-> NewPlaces(Len(calls.cmds))]
    /\ UNCHANGED <<pc, rec, i, step, log, logname, start_time, countdowns, error,
                   stopped, default, imported, cd, repl>>

PeerGObutton ==
    /\ peer.pc = "idle"
    /\ \E r \in PairRecipes : PeerGO(r)

\* The valves of the peer's step are turned on, and its countdown runs
PeerStepOn ==
    /\ peer.pc = "step_on"
    /\ LET calls == Issue(StepOnCalls(peer.rec, peer.step))
       IN /\ cmds' = cmds \o calls.cmds
          /\ open' = Switch(open, calls.cmds)
          /\ peer' = [peer EXCEPT !.pc = IF calls.ok THEN "step_off" ELSE "crashed",
                                  !.mine = @ \cup NewPlaces(Len(calls.cmds))]
    /\ UNCHANGED <<pc, rec, i, step, log, logname, start_time, countdowns, error,
                   stopped, default, imported, cd, repl>>

\* The end of the peer's step
PeerStepOff ==
    /\ peer.pc = "step_off"
    /\ LET calls == Issue(StepOffCalls(peer.rec, peer.i, peer.step))
           r == peer.rec
       IN /\ cmds' = cmds \o calls.cmds
          /\ open' = Switch(open, calls.cmds)
          /\ peer' =
               IF ~calls.ok
               THEN [peer EXCEPT !.pc = "crashed",
                                 !.mine = @ \cup NewPlaces(Len(calls.cmds))]
               ELSE IF ~LastStep(r, peer.step)
               THEN [peer EXCEPT !.pc = "step_on", !.step = @ + 1,
                                 !.mine = @ \cup NewPlaces(Len(calls.cmds))]
               ELSE [peer EXCEPT !.pc = IF peer.i + 1 < r.N THEN "step_on"
                                        ELSE "finalize",
                                 !.i = @ + 1, !.step = 0,
                                 !.log = update_cycle(peer.log, peer.i, r.N),
                                 !.mine = @ \cup NewPlaces(Len(calls.cmds))]
    /\ UNCHANGED <<pc, rec, i, step, log, logname, start_time, countdowns, error,
                   stopped, default, imported, cd, repl>>

\* The peer's final valves are turned on, and its last countdown runs
PeerFinalize ==
    /\ peer.pc = "finalize"
    /\ LET calls == Issue(FinalCalls(peer.rec))
       IN /\ cmds' = cmds \o calls.cmds
          /\ open' = Switch(open, calls.cmds)
          /\ peer' = [peer EXCEPT !.pc = IF calls.ok THEN "ending" ELSE "crashed",
                                  !.mine = @ \cup NewPlaces(Len(calls.cmds))]
    /\ UNCHANGED <<pc, rec, i, step, log, logname, start_time, countdowns, error,
                   stopped, default, imported, cd, repl>>

\* The peer's terminal record and end_recipe
PeerEnding ==
    /\ peer.pc = "ending"
    /\ cmds' = cmds \o end_recipe
    /\ open' = Switch(open, end_recipe)
    /\ peer' = [peer EXCEPT !.pc = "done",
                            !.log = write_to_log(@, << Line("end", <<Now>>),
                                                      Line("duration", <<>>),
                                                      Line("ending", <<"normal">>) >>),
                            !.mine = @ \cup NewPlaces(Len(end_recipe))]
    /\ UNCHANGED <<pc, rec, i, step, log, logname, start_time, countdowns, error,
                   stopped, default, imported, cd, repl>>

NextPair ==
    \/ GObuttonPair
    \/ StepOn
    \/ StepCountdown
    \/ StepOff
    \/ Finalize
    \/ FinalWait
    \/ Ending
    \/ PeerGObutton
    \/ PeerStepOn
    \/ PeerStepOff
    \/ PeerFinalize
    \/ PeerEnding

SpecPair == Init /\ [][NextPair]_vars

\* ------------------------------------------------------------------- claims

IsStep(c) == c.kind = "step"
StepCountdowns == SelectSeq(countdowns, IsStep)

\* The commands issued between the k-th countdown and the next one
Boundary(k) == SubSeq(cmds, countdowns[k].at + 1, countdowns[k + 1].at)

\* The valves of the universe that get a turn_OFF in commands cs
TurnedOff(cs) == {g \in DOMAIN relays : turn_OFF(g) \in Range(cs)}
TurnedOn(cs) == {g \in DOMAIN relays : turn_ON(g) \in Range(cs)}

\* The valve list that follows step st of cycle ci: the next step, the first
\* step of the next cycle, or the final valves after the very last step
Successor(r, ci, st) ==
    IF st < Len(r.times) - 1 THEN r.valves[st + 2]
    ELSE IF ci < r.N - 1 THEN r.valves[1]
    ELSE r.fingas

\* C1: after the countdown of step j of cycle i, the valves turned off are
\* exactly those of steps[j] that are absent from the successor set (the next
\* step, the next cycle's first step, or, only after the last step of the last
\* cycle, the final valves).
C1_OffIsStepMinusSuccessor ==
    \A k \in 1..(Len(countdowns) - 1) :
        countdowns[k].kind = "step" =>
            LET c == countdowns[k]
            IN TurnedOff(Boundary(k))
                 = Range(rec.valves[c.step + 1]) \ Range(Successor(rec, c.i, c.step))

\* C2: at a boundary between two consecutive steps, a valve of both the ending
\* and the following step gets no command, neither turn_OFF nor turn_ON.
C2_SharedValveNoCommand ==
    \A k \in 1..(Len(countdowns) - 1) :
        (countdowns[k].kind = "step" /\ countdowns[k + 1].kind = "step") =>
            \A g \in Range(rec.valves[countdowns[k].step + 1])
                     \cap Range(rec.valves[countdowns[k + 1].step + 1]) :
                g \notin TurnedOff(Boundary(k)) \cup TurnedOn(Boundary(k))

\* C3: a recipe with N = 0 is legal: once GO is pressed with it the log header
\* is written and the initialization commands are issued, and the script does
\* not end in an error.
C3_ZeroCyclesRuns ==
    (logname # <<>> /\ rec.N = 0 /\ stopped = NoStop) =>
        /\ pc # "crashed"
        /\ Len(log) >= 4
        /\ cmds # <<>>

\* C4: the step countdowns come in cycle-major order, the k-th being step
\* (k-1) mod L of cycle (k-1) div L with duration times[(k-1) mod L], none
\* skipped or repeated, and all N * L of them precede the final countdown.
C4_CycleCompleteness ==
    LET L == Len(rec.times)
        cds == StepCountdowns
    IN /\ Len(cds) <= rec.N * L
       /\ \A k \in 1..Len(cds) :
            /\ cds[k].i = (k - 1) \div L
            /\ cds[k].step = (k - 1) % L
            /\ cds[k].t = rec.times[((k - 1) % L) + 1]
       /\ \A k \in 1..Len(countdowns) :
            /\ countdowns[k].kind = "init" => k = 1
            /\ countdowns[k].kind = "final" =>
                  (k = Len(countdowns) /\ Len(cds) = rec.N * L)
       /\ pc \in {"ending", "done"} =>
            (Len(cds) = rec.N * L /\ countdowns[Len(countdowns)].kind = "final")

C4_Witness ==
    /\ pc = "done"
    /\ rec.N = 2
    /\ rec.times = <<5, 10>>
    /\ Len(StepCountdowns) = 4

\* C5: when STOP is pressed while the run is in its cycle loop, every valve of
\* relays gets a turn-off command after the press.
C5_AbortTurnsEveryValveOff ==
    (pc = "aborted" /\ stopped.from \in {"step_on", "countdown", "step_off"}) =>
        \A g \in DOMAIN relays :
            \E k \in (stopped.at + 1)..Len(cmds) : cmds[k] = turn_OFF(g)

IsCyclesDone(l) == l.key = "cycles_done"
CyclesDone == SelectSeq(log, IsCyclesDone)
CyclesDoneValue == IF CyclesDone = <<>> THEN 0 ELSE CyclesDone[1].val[1]

C6_OneLine ==
    /\ i = 0 => CyclesDone = <<>>
    /\ i > 0 => (Len(CyclesDone) = 1 /\ CyclesDone[1].val = <<i, rec.N>>)
    /\ pc = "done" => (Len(CyclesDone) = 1 /\ CyclesDone[1].val = <<rec.N, rec.N>>)

\* C6: the log holds no cycles_done line before cycle 0 finishes and exactly
\* one afterwards, whose value after cycle i is (i+1)/N; its value never
\* decreases and is N/N on normal completion.
C6_CyclesDone == []C6_OneLine /\ [][CyclesDoneValue' >= CyclesDoneValue]_vars

C6_Witness ==
    /\ pc = "done"
    /\ rec.N = 2
    /\ CyclesDoneValue = 2

\* C7: the recipe read back from the header Recipe wrote equals the recipe
\* Recipe was called with, and the import does not fail.
C7_RoundTrip == imported => (error = "" /\ default = rec)

Scenario ==
    [recipe |-> "ALD", initgas |-> <<>>, wait |-> 0, fingas |-> <<>>, waitf |-> 0,
     N |-> 2, Nsteps |-> 2, valves |-> << <<"V1">>, <<"V2">> >>, times |-> <<5, 5>>]

ScenarioTrace ==
    << turn_OFF("Ar reactor"), turn_OFF("Turn OFF Ar bypass"), turn_OFF("V1"),
       turn_OFF("V2"), turn_OFF("V3"),
       turn_ON("V1"), turn_OFF("V1"), turn_ON("V2"), turn_OFF("V2"),
       turn_ON("V1"), turn_OFF("V1"), turn_ON("V2"), turn_OFF("V2"),
       Cmd(EndRelay, 0) >>

C9_AllOffWhenDone ==
    pc = "done" =>
        /\ \A g \in DOMAIN relays :
              \E k \in (countdowns[Len(countdowns)].at + 1)..Len(cmds) :
                  cmds[k] = turn_OFF(g)
        /\ \A g \in DOMAIN relays : relays[g] \notin open

HasUnknownValve(r) ==
    \/ \E g \in Range(r.initgas) \cup Range(r.fingas) : g \notin DOMAIN relays
    \/ \E k \in 1..Len(r.valves) : \E g \in Range(r.valves[k]) : g \notin DOMAIN relays

\* C10: a recipe naming a valve that is no key of relays is rejected before any
\* log write and any valve command.
C10_UnknownValveRejected ==
    (logname # <<>> /\ HasUnknownValve(rec) /\ stopped = NoStop) =>
        (log = <<>> /\ cmds = <<>>)

\* The valves of relays whose relay is switched on
OpenValves == {g \in DOMAIN relays : relays[g] \in open}

\* C14: while the countdown of step j runs, the open valves are exactly the
\* valves of steps[j].
C14_OpenIsStepSet ==
    pc = "step_off" => OpenValves = Range(rec.valves[step + 1])

IsEnding(l) == l.key = "ending"

\* C15: a log holds at most one terminal record: once it is written, no later
\* STOP press appends another.
C15_OneTerminalRecord == Len(SelectSeq(log, IsEnding)) <= 1

\* C19: at a boundary that follows a step's countdown, every turn_OFF is issued
\* before any turn_ON.
C19_OffBeforeOn ==
    \A k \in 1..(Len(countdowns) - 1) :
        countdowns[k].kind = "step" =>
            LET b == Boundary(k)
            IN \A m \in 1..Len(b) : \A n \in 1..Len(b) :
                  (b[m].val = 1 /\ b[n].val = 0) => n < m

C19_Witness ==
    \E k \in 1..(Len(countdowns) - 1) :
        /\ countdowns[k].kind = "step"
        /\ \E m \in 1..Len(Boundary(k)) : Boundary(k)[m].val = 1
        /\ \E n \in 1..Len(Boundary(k)) : Boundary(k)[n].val = 0

\* C18: whatever the board held before, initialize issues one command to each
\* valve of relays, in sorted order, turn_ON if the valve is in initgas and
\* turn_OFF otherwise, and afterwards the open valves are those of initgas
\* that are keys of relays.
C18_InitializeForcesBoard ==
    (pc \in {"init_wait", "step_on", "finalize"} /\ countdowns = <<>>) =>
        /\ Len(cmds) = Len(SortedKeys)
        /\ \A k \in 1..Len(SortedKeys) :
              cmds[k] = IF SortedKeys[k] \in Range(rec.initgas)
                        THEN turn_ON(SortedKeys[k]) ELSE turn_OFF(SortedKeys[k])
        /\ OpenValves = Range(rec.initgas) \cap DOMAIN relays

C18_Witness ==
    /\ pc = "step_on"
    /\ rec.initgas = <<"V2", "V4">>
    /\ OpenValves = {"V2"}

\* C17: countdown(t, tot) terminates for every duration t >= 0 in whole
\* milliseconds.  While it runs a step is always possible and the number of
\* steps taken is bounded by floor(t) + 1; ticks take one second off both
\* the step time and the total; when it returns it has made floor(t)
\* ticks, one final sleep of the remainder iff the remainder is > 0, and
\* has slept t in all; for t = 0 it does nothing.
C17_Countdown ==
    /\ cd.pc = "loop" =>
          /\ ENABLED NextCountdown
          /\ cd.ticks + cd.rests <= cd.t0 \div Second + 1
          /\ cd.rests = 0 => /\ cd.t = cd.t0 - cd.ticks * Second
                             /\ cd.slept = cd.ticks * Second
          /\ cd.tot = cd.tot0 - cd.ticks
    /\ cd.pc = "done" =>
          /\ cd.ticks = cd.t0 \div Second
          /\ cd.tot = cd.tot0 - cd.ticks
          /\ cd.rests = (IF cd.t0 % Second > 0 THEN 1 ELSE 0)
          /\ cd.slept = cd.t0
          /\ cd.t0 = 0 => cd.ticks = 0 /\ cd.rests = 0 /\ cd.slept = 0

C17_Witness ==
    /\ cd.pc = "done" /\ cd.t0 = 2 * Second + 1
    /\ cd.ticks = 2 /\ cd.rests = 1

\* The header of the run's recipe and its start record are in the log
HeaderWritten ==
    /\ Len(log) >= 7
    /\ SubSeq(log, 1, 7) = write_recipe_to_log(<<>>, rec)
StartWritten ==
    /\ Len(log) >= 9
    /\ log[9].key = "start"
\* A turn_ON or turn_OFF has been issued
ValveCommanded == \E k \in 1..Len(cmds) : cmds[k].rel # EndRelay

\* C13: a log write that fails after the run has started (the cycles_done
\* update or the terminal record) does not stop the sequence: the run is
\* never ended by the failure.
C13_MidRunLogFailureNotFatal ==
    (error = "OSError" /\ StartWritten) => pc # "crashed"

\* C16: whenever a valve has been commanded, the header and the start
\* record are already in the log; and when the log fails at the start of
\* the run, the run is over and no valve has been commanded.
C16_LogBeforeValves ==
    /\ ValveCommanded => (HeaderWritten /\ StartWritten)
    /\ (error = "OSError" /\ ~StartWritten) =>
          (pc \in {"crashed", "aborted"} /\ ~ValveCommanded)

C16_Witness ==
    /\ pc = "crashed" /\ error = "OSError"
    /\ HeaderWritten /\ ~StartWritten
    /\ cmds = <<>>

\* C12: from the call of replacement on, whoever reads the log path finds
\* a file there, holding either all of the old content or all of the new
\* content; this also holds of what a crash inside the call leaves behind.
C12_ReaderSeesOldOrNew ==
    repl.pc # "idle" => (repl.exists /\ (log = repl.old \/ log = repl.new))

\* The script is inside Recipe: started and not yet at a terminal state
Running(p) ==
    p \in {"init_wait", "step_on", "countdown", "step_off", "finalize",
           "final_wait", "ending"}

\* C11: a GO pressed in another session while this session's run is active
\* fails at once: the second run is never active and has issued no command,
\* so that two runs are never active together.
C11_SingleActiveRun ==
    /\ Running(peer.during) => (peer.mine = {} /\ ~Running(peer.pc))
    /\ ~(Running(pc) /\ Running(peer.pc))

====
